---------------------------- MODULE Spec2Model ----------------------------
(***************************************************************************)
(* Model of the repository content harvester,                              *)
(* src/source/clone_repositories.py.                                       *)
(*                                                                         *)
(* Strings are sequences of one-character strings, so that str.strip,      *)
(* str.split, str.endswith and os.path.join are computed as Python         *)
(* computes them.  The remote forge is a fixed set of small repositories;  *)
(* what it answers to each GET (200, 403 with rate-limit headers, another  *)
(* status, a transport failure) is chosen nondeterministically, the        *)
(* non-200 answers out of a bounded budget.  The failures modelled are the  *)
(* ones the harvester distinguishes: a status other than 200, a transport  *)
(* failure (requests.RequestException), an OSError when the repository's   *)
(* directory is created, and a reference that cannot be parsed.            *)
(*                                                                         *)
(* Spec is the harvester run twice on one destination root with            *)
(* DOWNLOAD_LIMIT unset; LimitSpec is the same with DOWNLOAD_LIMIT set and  *)
(* one pool thread; SoloSpec is one reference on one pool thread, with     *)
(* fairness; HelperSpec applies extract_repo_info and                      *)
(* parse_rate_limit_headers to bounded sets of arguments.                  *)
(***************************************************************************)
EXTENDS Integers, Sequences, FiniteSets, TLC

\* ------------------------------------------------------------------ bounds
MaxRepos  == 2   \* longest repository list read from repositories.txt
MaxP      == 2   \* largest REPO_CONCURRENCY tried
MaxFaults == 2   \* non-200 answers / transport / filesystem failures per behaviour
MaxAhead  == 2   \* a rate-limit reset lies at most this far after now
MaxPath   == 6   \* longest path of a reference given to extract_repo_info
MaxHdr    == 3   \* largest header value given to parse_rate_limit_headers
MaxLimit  == 2   \* largest DOWNLOAD_LIMIT tried

\* ------------------------------------------------------- Python string ops
SLASH == "/"
EXT   == <<".", "c">>
NONE  == "None"

\* str.startswith / str.endswith
StartsWith(s, pre) ==
    /\ Len(pre) <= Len(s)
    /\ SubSeq(s, 1, Len(pre)) = pre

EndsWith(s, suf) ==
    /\ Len(suf) <= Len(s)
    /\ SubSeq(s, Len(s) - Len(suf) + 1, Len(s)) = suf

\* the positions of the separator in s
Slashes(s) == {k \in 1..Len(s) : s[k] = SLASH}

\* the separators left in place
StripNothing(s) == s

\* str.strip('/'): every leading and trailing separator removed
Strip(s) ==
    LET keep == (1..Len(s)) \ Slashes(s)
    IN  IF keep = {} THEN <<>>
        ELSE SubSeq(s, CHOOSE a \in keep : \A k \in keep : a <= k,
                       CHOOSE b \in keep : \A k \in keep : b >= k)

\* str.split('/'): one part more than there are separators; empty parts are
\* kept, and the empty string gives one empty part
Split(s) ==
    LET cuts == {0} \cup Slashes(s) \cup {Len(s) + 1}
        Cut(n) == CHOOSE c \in cuts : Cardinality({d \in cuts : d < c}) = n
    IN  [n \in 1..(Cardinality(cuts) - 1) |->
            SubSeq(s, Cut(n - 1) + 1, Cut(n) - 1)]

\* os.path.join(a, b) for POSIX paths
Join(a, b) ==
    IF b # <<>> /\ Head(b) = SLASH THEN b
    ELSE IF a = <<>> \/ a[Len(a)] = SLASH THEN a \o b
    ELSE a \o <<SLASH>> \o b

\* str.rstrip('/')
RStrip(s) ==
    LET keep == (1..Len(s)) \ Slashes(s)
    IN  IF keep = {} THEN <<>>
        ELSE SubSeq(s, 1, CHOOSE b \in keep : \A k \in keep : b >= k)

\* os.path.dirname(p): what precedes the last separator, or the root
Dirname(p) ==
    IF Slashes(p) = {} THEN <<>>
    ELSE LET last == CHOOSE a \in Slashes(p) : \A k \in Slashes(p) : a >= k
             head == SubSeq(p, 1, last)
         IN  IF Slashes(head) = 1..Len(head) THEN head ELSE RStrip(head)

\* the directories os.makedirs(p, exist_ok=True) makes sure exist: p and
\* every ancestor of p
Ancestors(p) ==
    {SubSeq(p, 1, k - 1) : k \in {j \in Slashes(p) : j > 1 /\ p[j - 1] # SLASH}}
        \cup (IF p = <<>> \/ p[Len(p)] = SLASH THEN {} ELSE {p})

\* ---------------------------------------------------- extract_repo_info
\* str.find for a set of characters: the first position of one of them, or
\* one past the end
FirstOf(s, cs) ==
    LET hits == {k \in 1..Len(s) : s[k] \in cs}
    IN  IF hits = {} THEN Len(s) + 1
        ELSE CHOOSE a \in hits : \A k \in hits : a <= k

\* the characters that end a scheme or a network location
Delims == {SLASH, ":", "?", "#"}

\* urllib.parse.urlparse(url).path: a scheme (a letter, then scheme characters
\* up to the first colon) is cut off, then the network location after "//",
\* then the fragment after "#" and the query after "?"
\* (each stage is computed once and handed on as a value)
Only(S) == CHOOSE x \in S : TRUE

SchemeEnd(url) ==
    LET hits == {k \in 1..Len(url) : url[k] \in Delims}
    IN  IF /\ hits # {}
           /\ \E i \in hits : /\ \A k \in hits : i <= k
                               /\ url[i] = ":"
                               /\ i > 1
                               /\ url[1] # "."
        THEN CHOOSE i \in hits : \A k \in hits : i <= k
        ELSE 0

DropScheme(url) == SubSeq(url, SchemeEnd(url) + 1, Len(url))

DropNetloc(u) ==
    IF Len(u) >= 2 /\ u[1] = SLASH /\ u[2] = SLASH
    THEN SubSeq(u, 2 + FirstOf(SubSeq(u, 3, Len(u)), {SLASH, "?", "#"}), Len(u))
    ELSE u

Before(u, cs) == SubSeq(u, 1, FirstOf(u, cs) - 1)

urlparse_path(url) ==
    Only({Before(u3, {"?"}) :
            u3 \in {Before(u2, {"#"}) :
                      u2 \in {DropNetloc(u1) : u1 \in {DropScheme(url)}}}})

\* lines 70-75; ok = FALSE stands for the ValueError of line 75
RepoInfo(parts) ==
    IF Len(parts) >= 2
    THEN [ok |-> TRUE, owner |-> parts[1], name |-> parts[2]]
    ELSE [ok |-> FALSE, owner |-> <<>>, name |-> <<>>]

\* lines 66-75
extract_repo_info(link) ==
    Only({RepoInfo(parts) :
            parts \in {Split(s) :
                         s \in {Strip(p) : p \in {urlparse_path(link)}}}})

\* ------------------------------------------------------ the remote forge
\* Owners p and q; repository names A and B.  p/A and q/A share their name,
\* and so do p/B and q/B; q/B is an empty repository.
OwnerP == <<"p">>
OwnerQ == <<"q">>
NameA  == <<"A">>
NameB  == <<"B">>

\* the lines of repositories.txt the model draws from (path components):
\* four well-formed references and one with a single path segment
LinkPA  == <<SLASH>> \o OwnerP \o <<SLASH>> \o NameA
LinkPB  == <<SLASH>> \o OwnerP \o <<SLASH>> \o NameB \o <<SLASH>>
LinkQA  == <<SLASH>> \o OwnerQ \o <<SLASH>> \o NameA
LinkQB  == <<SLASH>> \o OwnerQ \o <<SLASH>> \o NameB
LinkBad == <<SLASH>> \o OwnerP
Links   == {LinkPA, LinkPB, LinkQA, LinkQB, LinkBad}

File(dir, nm) == [name |-> nm, path |-> Join(dir, nm), type |-> "file"]
SubDir(dir, nm) == [name |-> nm, path |-> Join(dir, nm), type |-> "dir"]

\* what the contents endpoint lists for a directory of a repository
\*   p/A:  a.c  a.h  b.c
\*   p/B:  d/ { c.c }  e/ { c.h }
\*   q/A:  a.c  d.c/ { e.c  e.h }  b.c
\*   q/B:  (nothing)
Contents(owner, name, path) ==
    IF owner = OwnerP /\ name = NameA /\ path = <<>>
    THEN << File(<<>>, <<"a", ".", "c">>), File(<<>>, <<"a", ".", "h">>),
            File(<<>>, <<"b", ".", "c">>) >>
    ELSE IF owner = OwnerP /\ name = NameB /\ path = <<>>
    THEN << SubDir(<<>>, <<"d">>), SubDir(<<>>, <<"e">>) >>
    ELSE IF owner = OwnerP /\ name = NameB /\ path = <<"d">>
    THEN << File(<<"d">>, <<"c", ".", "c">>) >>
    ELSE IF owner = OwnerP /\ name = NameB /\ path = <<"e">>
    THEN << File(<<"e">>, <<"c", ".", "h">>) >>
    ELSE IF owner = OwnerQ /\ name = NameA /\ path = <<>>
    THEN << File(<<>>, <<"a", ".", "c">>), SubDir(<<>>, <<"d", ".", "c">>),
            File(<<>>, <<"b", ".", "c">>) >>
    ELSE IF owner = OwnerQ /\ name = NameA /\ path = <<"d", ".", "c">>
    THEN << File(<<"d", ".", "c">>, <<"e", ".", "c">>),
            File(<<"d", ".", "c">>, <<"e", ".", "h">>) >>
    ELSE <<>>

\* the recursive tree listing of the same repository: every entry in
\* depth-first order, a file as a blob, a directory as a tree
RECURSIVE TreeFrom(_, _, _, _)
TreeFrom(owner, name, items, k) ==
    IF k > Len(items) THEN <<>>
    ELSE LET it == items[k]
         IN  IF it.type = "dir"
             THEN <<[path |-> it.path, type |-> "tree"]>>
                  \o TreeFrom(owner, name, Contents(owner, name, it.path), 1)
                  \o TreeFrom(owner, name, items, k + 1)
             ELSE <<[path |-> it.path, type |-> "blob"]>>
                  \o TreeFrom(owner, name, items, k + 1)

TreeListing(owner, name) ==
    TreeFrom(owner, name, Contents(owner, name, <<>>), 1)

\* the default branch the metadata endpoint declares
DeclaredBranch(owner, name) == IF owner = OwnerQ THEN "dev" ELSE "main"

\* the bytes the raw-content endpoint serves for a URL
Body(url) == <<url.owner, url.repo, url.branch, url.path>>

\* ----------------------------------------------------------------- state
VARIABLES
    call,       \* a call of one of the pure helpers on its own: its arguments
    ret,        \* what that call returned
    env,        \* the DOWNLOAD_LIMIT environment variable
    repos,      \* the stripped non-blank lines of repositories.txt
    P,          \* REPO_CONCURRENCY, the size of the worker pool
    run,        \* how many times download_repositories has been started
    driver,     \* "idle", "running", "returned" or "raised"
    collected,  \* the futures whose result the driver has taken
    dirs,       \* the directories that exist on the local filesystem
    files,      \* the local files: path -> content
    now,        \* int(time.time())
    faults,     \* failures the environment has produced so far
    task,       \* per submitted reference: the locals of process_repository
    hist,       \* per submitted reference: what it did in this run (history)
    rawGets,    \* every raw-content GET issued: [run, task, path] (history)
    failedDl,   \* every failed raw-content GET: [run, task, path] (history)
    snap        \* the files as they were when this run started (history)

\* the state of the harvester itself
prog == << env, repos, P, run, driver, collected, dirs, files, now, faults,
           task, hist, rawGets, failedDl, snap >>

vars == << call, ret, prog >>

\* CLONED_PROJECTS_DIR, the destination root
DestRoot == <<"r">>

\* the literal fallback branch of process_repository
FallbackBranch == "master"

Tasks == DOMAIN task

QueuedTask ==
    [pc |-> "queued", worker |-> 0, link |-> <<>>, owner |-> <<>>, name |-> <<>>,
     branch |-> NONE, tree |-> <<>>, idx |-> 0, stack |-> <<>>,
     contents |-> <<>>, path |-> <<>>, ret |-> NONE, wake |-> 0, exc |-> NONE]

\* the last listing answered 403 with a parsable X-RateLimit-Reset header:
\* which path, the reset timestamp, and the time it was received
NoEvent == [on |-> FALSE, path |-> <<>>, reset |-> 0, at |-> 0]

\* what an invocation has done so far:
\*   existed     its destination directory existed when it started
\*   calls       the kinds of request it has issued
\*   wrote       the local paths it has created or written
\*   called      the paths download_blob was called for, order in the order
\*               of their first call, again those called a second time
\*   branchResp  the status of the metadata request
\*   treeResp    the status of the tree request, treeBranch the branch in it
\*   via         "tree" or "walk"
\*   listed      the directories whose 200 listing was processed, relisted
\*               those processed a second time
\*   errored     the directories whose listing request failed: a transport
\*               failure, or a status other than 200 with no integer
\*               X-RateLimit-Reset header on a 403
\*   listFault   some listing did not answer 200
\*   resp        the answer to the raw-content GET just made
\*   rl          the last 403 listing with an integer X-RateLimit-Reset
FreshHist ==
    [existed |-> FALSE, calls |-> {}, wrote |-> {}, called |-> {},
     order |-> <<>>, again |-> {}, branchResp |-> NONE, treeResp |-> NONE,
     treeBranch |-> NONE, via |-> NONE, listed |-> {}, relisted |-> {},
     errored |-> {}, listFault |-> FALSE, resp |-> NONE, rl |-> NoEvent]

\* the history once download_blob is called for path
Called(h, path) ==
    [h EXCEPT !.resp = NONE,
              !.called = @ \cup {path},
              !.order = IF path \in h.called THEN @ ELSE Append(@, path),
              !.again = IF path \in h.called THEN @ \cup {path} ELSE @]

\* a task that has returned or raised keeps no locals
Finished(t, how, e) ==
    [QueuedTask EXCEPT !.pc = how, !.exc = e, !.link = t.link,
                       !.owner = t.owner, !.name = t.name]

Active == {i \in Tasks : task[i].pc \notin {"queued", "done", "failed"}}

RepoDir(t) == Join(DestRoot, t.name)
LocalPath(t) == Join(RepoDir(t), t.path)

\* a check that looks at a path nothing is ever stored under
PathExistsNowhere(p) == FALSE

\* os.path.exists
PathExists(p) == p \in dirs \/ p \in DOMAIN files

\* the top read and left on the stack
PopKeeps(st) == st

\* Python lists used as a stack: list.pop() and list.append()
Top(st) == st[Len(st)]
Pop(st) == SubSeq(st, 1, Len(st) - 1)

RepoLists == UNION {[1..n -> Links] : n \in 1..MaxRepos}

\* Python values None and int
PyNone == [none |-> TRUE, v |-> 0]
PyInt(n) == [none |-> FALSE, v |-> n]

\* the truth value of a Python int or None
Truthy(x) == ~x.none /\ x.v # 0

\* a header of a response: absent, not an integer, or an integer
Absent == [k |-> "absent", v |-> 0]
Malformed == [k |-> "bad", v |-> 0]
IntHdr(n) == [k |-> "int", v |-> n]

\* no helper is being called on its own
NoHeaders == [remaining |-> Absent, reset |-> Absent]
NoCall == [fn |-> NONE, link |-> <<>>, headers |-> NoHeaders]
NoRet  == [done |-> FALSE,
           info |-> [ok |-> FALSE, owner |-> <<>>, name |-> <<>>],
           pair |-> << PyNone, PyNone >>]

\* DOWNLOAD_LIMIT: not set, set to the empty string, to something that is no
\* integer, or to an integer
EnvUnset == [k |-> "unset", v |-> 0]
EnvEmpty == [k |-> "empty", v |-> 0]
EnvBad   == [k |-> "bad", v |-> 0]
EnvInt(n) == [k |-> "int", v |-> n]

\* the harvester before its first run, DOWNLOAD_LIMIT being e
ProgInit(e) ==
    /\ env = e
    /\ repos \in RepoLists
    /\ P \in 1..MaxP
    /\ run = 0
    /\ driver = "idle"
    /\ collected = {}
    /\ dirs = {}
    /\ files = <<>>
    /\ now = 2
    /\ faults = 0
    /\ task = <<>>
    /\ hist = <<>>
    /\ rawGets = {}
    /\ failedDl = {}
    /\ snap = <<>>

Init ==
    /\ call = NoCall
    /\ ret = NoRet
    /\ ProgInit(EnvUnset)

\* ------------------------------------------------ download_repositories
\* lines 191-199: the limit read from DOWNLOAD_LIMIT, None unless it is set,
\* not empty and an integer
download_repositories_entry(e) ==
    IF e.k = "int" THEN PyInt(e.v) ELSE PyNone

\* the Python slice lst[:n]
Slice(lst, n) ==
    IF n >= 0
    THEN SubSeq(lst, 1, IF n <= Len(lst) THEN n ELSE Len(lst))
    ELSE SubSeq(lst, 1, IF Len(lst) + n >= 0 THEN Len(lst) + n ELSE 0)

\* lines 176-177: if limit: repos = repos[:limit]
Truncate(lst, limit) ==
    IF Truthy(limit) THEN Slice(lst, limit.v) ELSE lst

\* lines 169-181: read the list and submit one future per reference
download_repositories ==
    /\ driver \in {"idle", "returned"}
    /\ run < 2
    /\ run' = run + 1
    /\ driver' = "running"
    /\ collected' = {}
    /\ \E sub \in {Truncate(repos, download_repositories_entry(env))} :
         /\ task' = [i \in 1..Len(sub) |-> [QueuedTask EXCEPT !.link = sub[i]]]
         /\ hist' = [i \in 1..Len(sub) |-> FreshHist]
    /\ snap' = files
    /\ UNCHANGED << call, ret, env, repos, P, dirs, files, now, faults, rawGets, failedDl >>

\* a pool that hands work to a thread that is still busy
WorkerIdleAlways(w) == TRUE

\* a pool thread is free when it runs no work item
WorkerIdle(w) == \A j \in Tasks : task[j].worker # w

IdleWorkers == {w \in 1..P : WorkerIdle(w)}

\* ThreadPoolExecutor(max_workers=REPO_CONCURRENCY): a free thread takes the
\* oldest queued work item (the threads are interchangeable: the lowest free
\* one stands for any of them)
Dispatch(i) ==
    /\ driver = "running"
    /\ task[i].pc = "queued"
    /\ \A j \in Tasks : j < i => task[j].pc # "queued"
    /\ IdleWorkers # {}
    /\ LET w == CHOOSE w \in IdleWorkers : \A v \in IdleWorkers : w <= v
       IN  task' = [task EXCEPT ![i].pc = "start", ![i].worker = w]
    /\ UNCHANGED << call, ret, env, repos, P, run, driver, collected, dirs, files, now, faults,
                    hist, rawGets, failedDl, snap >>

\* fut.result() outside any try block
FutResultNoCatch(t) == IF t.pc = "failed" THEN "raised" ELSE "ok"

\* lines 182-187: fut.result() inside try/except Exception
FutResult(t) == IF t.pc = "failed" THEN "caught" ELSE "ok"

Collect(i) ==
    /\ driver = "running"
    /\ i \in Tasks \ collected
    /\ task[i].pc \in {"done", "failed"}
    /\ collected' = collected \cup {i}
    /\ driver' = IF FutResult(task[i]) = "raised" THEN "raised" ELSE driver
    /\ UNCHANGED << call, ret, env, repos, P, run, dirs, files, now, faults, task, hist,
                    rawGets, failedDl, snap >>

\* the as_completed loop and the with block end once every future is taken
DriverReturn ==
    /\ driver = "running"
    /\ collected = Tasks
    /\ driver' = "returned"
    /\ UNCHANGED << call, ret, env, repos, P, run, collected, dirs, files, now, faults, task,
                    hist, rawGets, failedDl, snap >>

\* --------------------------------------------------- process_repository
\* the repository-level check left out
ShouldSkipNever(repo_dir) == FALSE

\* os.path.isfile in the place of os.path.exists
ShouldSkipIfFile(repo_dir) == repo_dir \in DOMAIN files

\* line 151: if os.path.exists(repo_dir)
ShouldSkip(repo_dir) == PathExists(repo_dir)

\* lines 149-153
ProcStart(i) ==
    /\ task[i].pc = "start"
    /\ \E info \in {extract_repo_info(task[i].link)} :
       LET t == [task[i] EXCEPT !.owner = info.owner, !.name = info.name]
       IN  IF ~info.ok
           THEN /\ task' = [task EXCEPT
                              ![i] = Finished(task[i], "failed", "ValueError")]
                /\ UNCHANGED hist
           ELSE /\ hist' = [hist EXCEPT ![i].existed = RepoDir(t) \in dirs]
                /\ task' = [task EXCEPT ![i] =
                              IF ShouldSkip(RepoDir(t))
                              THEN Finished(t, "done", NONE)
                              ELSE [t EXCEPT !.pc = "mkdir"]]
    /\ UNCHANGED << call, ret, env, repos, P, run, driver, collected, dirs, files, now, faults,
                    rawGets, failedDl, snap >>

\* line 154: os.makedirs(repo_dir, exist_ok=True), which may raise OSError
ProcMkdir(i) ==
    /\ task[i].pc = "mkdir"
    /\ \E ok \in BOOLEAN, made \in {Ancestors(RepoDir(task[i]))} :
             IF ok
             THEN /\ dirs' = dirs \cup made
                  /\ hist' = [hist EXCEPT ![i].wrote = @ \cup (made \ dirs)]
                  /\ task' = [task EXCEPT ![i].pc = "branch"]
                  /\ UNCHANGED faults
             ELSE /\ faults < MaxFaults
                  /\ faults' = faults + 1
                  /\ task' = [task EXCEPT
                                ![i] = Finished(task[i], "failed", "OSError")]
                  /\ UNCHANGED << dirs, hist >>
    /\ UNCHANGED << call, ret, env, repos, P, run, driver, collected, files, now, rawGets,
                    failedDl, snap >>

\* lines 78-86: the declared branch on 200, None otherwise
get_default_branch(status, owner, name) ==
    IF status = "200" THEN DeclaredBranch(owner, name) ELSE NONE

\* the branch taken as returned, None included
OrElseNothing(b, other) == b

\* Python's  b or 'master'
OrElse(b, other) == IF b = NONE THEN other ELSE b

\* line 157; a transport failure raises out of process_repository
GetBranch(i) ==
    /\ task[i].pc = "branch"
    /\ \E r \in {"200", "404", "exc"} :
         /\ r # "200" => faults < MaxFaults
         /\ faults' = IF r = "200" THEN faults ELSE faults + 1
         /\ hist' = [hist EXCEPT ![i].calls = @ \cup {"branch"},
                                 ![i].branchResp = r]
         /\ LET t == task[i]
            IN  task' = [task EXCEPT ![i] =
                   IF r = "exc"
                   THEN Finished(t, "failed", "RequestException")
                   ELSE [t EXCEPT
                           !.pc = "tree",
                           !.branch = OrElse(get_default_branch(r, t.owner, t.name),
                                             FallbackBranch)]]
    /\ UNCHANGED << call, ret, env, repos, P, run, driver, collected, dirs, files, now,
                    rawGets, failedDl, snap >>

\* an empty listing taken for no listing
try_get_repo_tree_or_none(r, owner, name) ==
    IF r = "200" /\ TreeListing(owner, name) # <<>>
    THEN [avail |-> TRUE, entries |-> TreeListing(owner, name)]
    ELSE [avail |-> FALSE, entries |-> <<>>]

\* lines 89-99: the entries on 200 with a tree field, None otherwise
try_get_repo_tree(r, owner, name) ==
    IF r = "200"
    THEN [avail |-> TRUE, entries |-> TreeListing(owner, name)]
    ELSE [avail |-> FALSE, entries |-> <<>>]

\* lines 158-160, 164-166 and line 123
GetTree(i) ==
    /\ task[i].pc = "tree"
    /\ \E r \in {"200", "200-no-tree", "403", "exc"} :
         /\ r # "200" => faults < MaxFaults
         /\ faults' = IF r = "200" THEN faults ELSE faults + 1
         /\ LET t == task[i]
                tree == try_get_repo_tree(r, t.owner, t.name)
                h == [hist[i] EXCEPT !.calls = @ \cup {"tree"},
                                     !.treeResp = r,
                                     !.treeBranch = t.branch]
            IN  IF r = "exc"
                THEN /\ task' = [task EXCEPT
                                   ![i] = Finished(t, "failed", "RequestException")]
                     /\ hist' = [hist EXCEPT ![i] = h]
                ELSE IF tree.avail
                THEN /\ task' = [task EXCEPT ![i].pc = "treeloop",
                                             ![i].tree = tree.entries,
                                             ![i].idx = 1]
                     /\ hist' = [hist EXCEPT ![i] = [h EXCEPT !.via = "tree"]]
                ELSE /\ task' = [task EXCEPT ![i].pc = "walk",
                                             ![i].stack = << <<>> >>]
                     /\ hist' = [hist EXCEPT ![i] = [h EXCEPT !.via = "walk"]]
    /\ UNCHANGED << call, ret, env, repos, P, run, driver, collected, dirs, files, now,
                    rawGets, failedDl, snap >>

\* the extension test left out
TreeMatchAnyBlob(entry) == entry.type = "blob"

\* line 162
TreeMatch(entry) == entry.type = "blob" /\ EndsWith(entry.path, EXT)

RECURSIVE NextMatch(_, _)
NextMatch(tree, k) ==
    IF k > Len(tree) THEN 0
    ELSE IF TreeMatch(tree[k]) THEN k
    ELSE NextMatch(tree, k + 1)

\* lines 161-163: run the loop up to its next download_blob call, or to its end
TreeNext(i) ==
    /\ task[i].pc = "treeloop"
    /\ LET t == task[i]
           k == NextMatch(t.tree, t.idx)
       IN  IF k = 0
           THEN /\ task' = [task EXCEPT ![i] = Finished(t, "done", NONE)]
                /\ hist' = [hist EXCEPT ![i].resp = NONE]
           ELSE /\ task' = [task EXCEPT ![i].pc = "dbcheck",
                                        ![i].ret = "treeloop",
                                        ![i].path = t.tree[k].path,
                                        ![i].idx = k + 1]
                /\ hist' = [hist EXCEPT ![i] = Called(@, t.tree[k].path)]
    /\ UNCHANGED << call, ret, env, repos, P, run, driver, collected, dirs, files, now, faults,
                    rawGets, failedDl, snap >>

\* --------------------------------------------------------- download_blob
\* line 103: the raw-content URL
RawUrl(t) == [owner |-> t.owner, repo |-> t.name, branch |-> t.branch,
              path |-> t.path]

\* the file-level check left out
FileSkipsNever(local_path) == FALSE

\* line 106: if os.path.exists(local_path)
FileSkips(local_path) == PathExists(local_path)

\* lines 104-108: make the intermediate directories, return if the file exists
DbCheck(i) ==
    /\ task[i].pc = "dbcheck"
    /\ \E lp \in {LocalPath(task[i])} :
       \E parent \in {Dirname(lp)} :
       \E made \in {Ancestors(parent)} :
       LET t == task[i]
       IN  /\ dirs' = dirs \cup made
           /\ hist' = [hist EXCEPT ![i].wrote = @ \cup (made \ dirs)]
           /\ task' = [task EXCEPT ![i] =
                         IF FileSkips(lp)
                         THEN [t EXCEPT !.pc = t.ret, !.ret = NONE, !.path = <<>>]
                         ELSE [t EXCEPT !.pc = "dbfetch"]]
    /\ UNCHANGED << call, ret, env, repos, P, run, driver, collected, files, now, faults,
                    rawGets, failedDl, snap >>

\* the body written whatever the status
WriteBlobAlways(r, fls, lp, body) ==
    [p \in DOMAIN fls \cup {lp} |-> IF p = lp THEN body ELSE fls[p]]

\* lines 111-116: the body is written on status 200 only
WriteBlob(r, fls, lp, body) ==
    IF r = "200"
    THEN [p \in DOMAIN fls \cup {lp} |-> IF p = lp THEN body ELSE fls[p]]
    ELSE fls

\* lines 109-118: the GET, the write, the warning; RequestException is caught
DbFetch(i) ==
    /\ task[i].pc = "dbfetch"
    /\ \E r \in {"200", "404", "exc"}, lp \in {LocalPath(task[i])} :
         LET t == task[i]
             newFiles == WriteBlob(r, files, lp, Body(RawUrl(t)))
         IN  /\ r # "200" => faults < MaxFaults
             /\ faults' = IF r = "200" THEN faults ELSE faults + 1
             /\ files' = newFiles
             /\ rawGets' = rawGets \cup {[run |-> run, task |-> i, path |-> lp,
                                            branch |-> t.branch]}
             /\ failedDl' = IF r = "200" THEN failedDl
                            ELSE failedDl \cup {[run |-> run, task |-> i, path |-> lp]}
             /\ hist' = [hist EXCEPT
                           ![i].calls = @ \cup {"raw"},
                           ![i].resp = r,
                           ![i].wrote = IF newFiles # files \/ r = "200"
                                        THEN @ \cup {lp} ELSE @]
             /\ task' = [task EXCEPT ![i].pc = t.ret, ![i].ret = NONE,
                                     ![i].path = <<>>]
    /\ UNCHANGED << call, ret, env, repos, P, run, driver, collected, dirs, now, snap >>

\* ------------------------------------------------------- Rate Limit Guard
\* int(headers.get(name, '0'))
HeaderInt(h) == IF h.k = "absent" THEN 0 ELSE h.v

\* the conversion without its try block
parse_rate_limit_headers_unguarded(headers) ==
    << PyInt(HeaderInt(headers.remaining)), PyInt(HeaderInt(headers.reset)) >>

\* lines 49-55
parse_rate_limit_headers(headers) ==
    IF headers.remaining.k = "bad" \/ headers.reset.k = "bad"
    THEN << PyNone, PyNone >>
    ELSE << PyInt(HeaderInt(headers.remaining)), PyInt(HeaderInt(headers.reset)) >>

Max(a, b) == IF a >= b THEN a ELSE b

\* line 60: wait = max(0, reset_ts - now)
WaitFor(reset_ts, t) == Max(0, reset_ts - t)

\* the sleep without its extra second
SleepForNoMargin(wait) == wait

\* line 63: time.sleep(wait + 1)
SleepFor(wait) == wait + 1

\* ------------------------------------------- get_files_via_contents_api
\* what the contents endpoint may answer at time t
ResetHeaders(t) ==
    {Absent, Malformed} \cup
    {IntHdr(n) : n \in {0} \cup {m \in (t - 1)..(t + MaxAhead) : m >= 0}}

ListResponses(t) ==
    {[status |-> "200", remaining |-> IntHdr(1), reset |-> Absent],
     [status |-> "404", remaining |-> Absent, reset |-> Absent],
     [status |-> "exc", remaining |-> Absent, reset |-> Absent]}
    \cup {[status |-> "403", remaining |-> IntHdr(0), reset |-> h] :
            h \in ResetHeaders(t)}

\* every 403 taken for a rate limit
IsRateLimitedAny403(status, reset) == status = "403"

\* line 130: resp.status_code == 403 and reset
IsRateLimited(status, reset) == status = "403" /\ Truthy(reset)

\* lines 124-137, 144-145: pop a path and list it
WalkPop(i) ==
    /\ task[i].pc = "walk"
    /\ LET t == task[i]
       IN  IF t.stack = <<>>
           THEN /\ task' = [task EXCEPT ![i] = Finished(t, "done", NONE)]
                /\ hist' = [hist EXCEPT ![i].resp = NONE]
                /\ UNCHANGED faults
           ELSE \E r \in ListResponses(now) :
                LET path == Top(t.stack)
                    rest == Pop(t.stack)
                    reset == parse_rate_limit_headers(r)[2]
                    wait == WaitFor(reset.v, now)
                    event == IF r.status = "403" /\ r.reset.k = "int"
                             THEN [on |-> TRUE, path |-> path,
                                   reset |-> r.reset.v, at |-> now]
                             ELSE NoEvent
                IN  /\ r.status # "200" => faults < MaxFaults
                    /\ faults' = IF r.status = "200" THEN faults ELSE faults + 1
                    /\ hist' = [hist EXCEPT
                                  ![i].calls = @ \cup {"contents"},
                                  ![i].resp = NONE,
                                  ![i].listFault = @ \/ r.status # "200",
                                  ![i].listed =
                                      IF r.status = "200" THEN @ \cup {path} ELSE @,
                                  ![i].relisted =
                                      IF r.status = "200" /\ path \in hist[i].listed
                                      THEN @ \cup {path} ELSE @,
                                  ![i].errored =
                                      IF \/ r.status \in {"404", "exc"}
                                         \/ r.status = "403" /\ r.reset.k # "int"
                                      THEN @ \cup {path} ELSE @,
                                  ![i].rl = event]
                    /\ task' = [task EXCEPT ![i] =
                          IF r.status = "exc"
                          THEN [t EXCEPT !.stack = rest]
                          ELSE IF IsRateLimited(r.status, reset)
                          THEN (IF wait > 0
                                THEN [t EXCEPT !.stack = rest, !.path = path,
                                               !.pc = "sleep",
                                               !.wake = now + SleepFor(wait)]
                                ELSE [t EXCEPT !.stack = Append(rest, path)])
                          ELSE IF r.status # "200"
                          THEN [t EXCEPT !.stack = rest]
                          ELSE [t EXCEPT !.stack = rest, !.pc = "items",
                                         !.idx = 1,
                                         !.contents =
                                             Contents(t.owner, t.name, path)]]
    /\ UNCHANGED << call, ret, env, repos, P, run, driver, collected, dirs, files, now,
                    rawGets, failedDl, snap >>

\* line 63 returns once the sleep is over; lines 132-133 push the path back
WalkWake(i) ==
    /\ task[i].pc = "sleep"
    /\ now >= task[i].wake
    /\ task' = [task EXCEPT ![i].pc = "walk", ![i].wake = 0, ![i].path = <<>>,
                            ![i].stack = Append(@, task[i].path)]
    /\ UNCHANGED << call, ret, env, repos, P, run, driver, collected, dirs, files, now, faults,
                    hist, rawGets, failedDl, snap >>

\* the extension test left out
WalkMatchAnyFile(item) == item.type = "file"

\* line 139
WalkMatch(item) == item.type = "file" /\ EndsWith(item.name, EXT)

\* every entry that is not downloaded pushed, whatever its type
RECURSIVE ScanPushesAll(_, _, _)
ScanPushesAll(items, k, st) ==
    IF k > Len(items) THEN [k |-> 0, stack |-> st]
    ELSE IF WalkMatch(items[k]) THEN [k |-> k, stack |-> st]
    ELSE ScanPushesAll(items, k + 1, Append(st, items[k].path))

\* lines 138-143 up to the next download_blob call (k) or the end (k = 0):
\* every directory met on the way is pushed
RECURSIVE Scan(_, _, _)
Scan(items, k, st) ==
    IF k > Len(items) THEN [k |-> 0, stack |-> st]
    ELSE IF WalkMatch(items[k]) THEN [k |-> k, stack |-> st]
    ELSE IF items[k].type = "dir"
         THEN Scan(items, k + 1, Append(st, items[k].path))
    ELSE Scan(items, k + 1, st)

ItemsNext(i) ==
    /\ task[i].pc = "items"
    /\ LET t == task[i]
           sc == Scan(t.contents, t.idx, t.stack)
       IN  IF sc.k = 0
           THEN /\ task' = [task EXCEPT ![i].pc = "walk", ![i].stack = sc.stack,
                                        ![i].contents = <<>>, ![i].idx = 0]
                /\ hist' = [hist EXCEPT ![i].resp = NONE]
           ELSE /\ task' = [task EXCEPT ![i].pc = "dbcheck",
                                        ![i].ret = "items",
                                        ![i].stack = sc.stack,
                                        ![i].path = t.contents[sc.k].path,
                                        ![i].idx = sc.k + 1]
                /\ hist' = [hist EXCEPT
                              ![i] = Called(@, t.contents[sc.k].path)]
    /\ UNCHANGED << call, ret, env, repos, P, run, driver, collected, dirs, files, now, faults,
                    rawGets, failedDl, snap >>

\* time passes while a worker sleeps (every other step is taken to be
\* instantaneous)
Tick ==
    /\ \E i \in Tasks : task[i].pc = "sleep" /\ now < task[i].wake
    /\ now' = now + 1
    /\ UNCHANGED << call, ret, env, repos, P, run, driver, collected, dirs, files, faults, task,
                    hist, rawGets, failedDl, snap >>

\* ------------------------------------------------------- specification
Next ==
    \/ download_repositories
    \/ DriverReturn
    \/ Tick
    \/ \E i \in Tasks : Dispatch(i)
    \/ \E i \in Tasks : ProcStart(i)
    \/ \E i \in Tasks : ProcMkdir(i)
    \/ \E i \in Tasks : GetBranch(i)
    \/ \E i \in Tasks : GetTree(i)
    \/ \E i \in Tasks : TreeNext(i)
    \/ \E i \in Tasks : DbCheck(i)
    \/ \E i \in Tasks : DbFetch(i)
    \/ \E i \in Tasks : WalkPop(i)
    \/ \E i \in Tasks : WalkWake(i)
    \/ \E i \in Tasks : ItemsNext(i)
    \/ \E i \in Tasks : Collect(i)

Spec == Init /\ [][Next]_vars

\* ------------------------------------ one reference, one pool thread
\* the steps of the invocation for the i-th reference
Step(i) ==
    /\ i \in Tasks
    /\ \/ ProcStart(i) \/ ProcMkdir(i) \/ GetBranch(i) \/ GetTree(i)
       \/ TreeNext(i) \/ DbCheck(i) \/ DbFetch(i)
       \/ WalkPop(i) \/ WalkWake(i) \/ ItemsNext(i)

SoloInit ==
    /\ Init
    /\ Len(repos) = 1
    /\ P = 1

\* a pool thread that has work keeps running, and the clock keeps going
\* while a thread sleeps
SoloSpec ==
    /\ SoloInit
    /\ [][Next]_vars
    /\ WF_vars(Step(1))
    /\ WF_vars(Tick)

\* ------------------------------------------- runs with DOWNLOAD_LIMIT
Envs == {EnvUnset, EnvEmpty, EnvBad} \cup {EnvInt(n) : n \in (-1)..MaxLimit}

LimitInit ==
    /\ P = 1
    /\ call = NoCall
    /\ ret = NoRet
    /\ \E e \in Envs : ProgInit(e)

LimitSpec == LimitInit /\ [][Next]_vars

\* --------------------------------------- the pure helpers on their own
\* every string of at most n characters out of cs
RECURSIVE Strings(_, _)
Strings(cs, n) ==
    IF n = 0 THEN {<<>>}
    ELSE LET S == Strings(cs, n - 1)
         IN  S \cup {Append(s, c) : s \in S, c \in cs}

\* references: with or without scheme and host, any path of up to MaxPath
\* characters, with or without a query or a fragment
UrlHeads == {<<>>, <<"h", ":", SLASH, SLASH, "g">>}
UrlTails == {<<>>, <<"?", "x", SLASH, "y">>, <<"#", "x", SLASH, "y">>}
Urls == {h \o s \o t : h \in UrlHeads, s \in Strings({SLASH, "p", "A"}, MaxPath),
                        t \in UrlTails}

HeaderValues == {Absent, Malformed} \cup {IntHdr(n) : n \in 0..MaxHdr}

ResolverCalls ==
    {[fn |-> "extract_repo_info", link |-> u, headers |-> NoHeaders] : u \in Urls}

HeaderCalls ==
    {[fn |-> "parse_rate_limit_headers", link |-> <<>>,
      headers |-> [remaining |-> a, reset |-> b]] :
        a \in HeaderValues, b \in HeaderValues}

HelperInit ==
    /\ repos = <<LinkPA>>
    /\ P = 1
    /\ call \in ResolverCalls \cup HeaderCalls
    /\ ret = NoRet
    /\ ProgInit(EnvUnset)

\* lines 66-75 applied to call.link
Resolve ==
    /\ call.fn = "extract_repo_info"
    /\ ~ret.done
    /\ ret' = [ret EXCEPT !.done = TRUE, !.info = extract_repo_info(call.link)]
    /\ UNCHANGED << call, prog >>

\* lines 49-55 applied to call.headers
ParseHeaders ==
    /\ call.fn = "parse_rate_limit_headers"
    /\ ~ret.done
    /\ ret' = [ret EXCEPT !.done = TRUE,
                          !.pair = parse_rate_limit_headers(call.headers)]
    /\ UNCHANGED << call, prog >>

HelperNext == Resolve \/ ParseHeaders

HelperSpec == HelperInit /\ [][HelperNext]_vars

\* =============================================================== claims
Terminal(i) == task[i].pc \in {"done", "failed"}

\* the files below a directory
FilesUnder(d) == {p \in DOMAIN files : StartsWith(p, d \o <<SLASH>>)}

\* C1: an invocation of process_repository that finds its destination
\* directory existing returns at once: it issues no API call (branch, tree,
\* contents, raw) and creates or writes nothing.
RepoLevelSkip ==
    \A i \in Tasks :
        hist[i].existed =>
            /\ task[i].pc = "done"
            /\ hist[i].calls = {}
            /\ hist[i].wrote = {}
            /\ hist[i].called = {}

\* C1 witness: a skipped invocation whose directory exists and is empty
RepoLevelSkipWitness ==
    \E i \in Tasks :
        /\ hist[i].existed
        /\ task[i].pc = "done"
        /\ RepoDir(task[i]) \in dirs
        /\ FilesUnder(RepoDir(task[i])) = {}

\* C2: in a second run on the same destination root no raw-content GET is
\* issued for a file that existed when the run started, and every such file
\* keeps its content.
SecondRunIdempotent ==
    run = 2 =>
        /\ \A g \in rawGets : g.run = 2 => g.path \notin DOMAIN snap
        /\ \A p \in DOMAIN snap : p \in DOMAIN files /\ files[p] = snap[p]

\* C2 witness: a second run has completed over files the first run left,
\* one download of the first run having failed
SecondRunIdempotentWitness ==
    /\ run = 2
    /\ driver = "returned"
    /\ DOMAIN snap # {}
    /\ \E f \in failedDl : f.run = 1 /\ f.path \notin DOMAIN snap

\* what the tree-based path downloads from the recursive listing
TreeDownloads(owner, name) ==
    LET tree == TreeListing(owner, name)
    IN  {tree[k].path : k \in {n \in 1..Len(tree) : TreeMatch(tree[n])}}

\* C3: a walk all of whose listings answered 200 has called download_blob for
\* exactly the paths the tree-based path downloads from the recursive listing
\* of the same repository.
StrategyEquivalence ==
    \A i \in Tasks :
        (task[i].pc = "done" /\ hist[i].via = "walk" /\ ~hist[i].listFault)
            => hist[i].called = TreeDownloads(task[i].owner, task[i].name)

\* C3 witness: a complete walk of q/A (two matching files in the root, one in
\* a subdirectory) with three downloads
StrategyEquivalenceWitness ==
    \E i \in Tasks :
        /\ task[i].pc = "done"
        /\ hist[i].via = "walk"
        /\ ~hist[i].listFault
        /\ task[i].owner = OwnerQ
        /\ Cardinality(hist[i].called) = 3

\* the walker of task i has dealt with a rate-limited listing and is about
\* to issue its next listing request
AfterRateLimit(i) == hist[i].rl.on /\ task[i].pc = "walk"

RetryIsDue(i) ==
    LET ev == hist[i].rl
        t == task[i]
    IN  /\ t.pc = "sleep" =>
              /\ t.path = ev.path
              /\ t.wake > ev.reset
        /\ t.pc = "walk" =>
              /\ t.stack # <<>>
              /\ Top(t.stack) = ev.path
              /\ now >= ev.reset
              /\ ev.reset > ev.at => now > ev.reset

ConcurrencyBound ==
    /\ Cardinality(Active) <= P
    /\ \A i \in Active : task[i].worker \in 1..P
    /\ \A i, j \in Active : i # j => task[i].worker # task[j].worker

\* C5 witness: the pool is full and a reference waits in the queue
ConcurrencyBoundWitness ==
    /\ Cardinality(Active) = P
    /\ \E i \in Tasks : task[i].pc = "queued"

\* C6 as stated: two invocations active at the same time have created or
\* written no local path in common.
NoOverlappingWrites ==
    \A i, j \in Active :
        i # j => hist[i].wrote \cap hist[j].wrote = {}

\* the steps of the pool: its threads, and the clock they sleep by
WorkerStep ==
    \/ Tick
    \/ \E i \in Tasks :
          \/ Dispatch(i) \/ ProcStart(i) \/ ProcMkdir(i) \/ GetBranch(i)
          \/ GetTree(i) \/ TreeNext(i) \/ DbCheck(i) \/ DbFetch(i)
          \/ WalkPop(i) \/ WalkWake(i) \/ ItemsNext(i)

\* C7: the driver never raises and returns only when every invocation has
\* ended; an invocation that raised holds no pool thread; and as long as a
\* submitted reference is unfinished the pool can take a step, whatever the
\* other invocations did.
FailureIsolation ==
    /\ driver # "raised"
    /\ \A i \in Tasks : task[i].pc = "failed" => task[i].worker = 0
    /\ driver = "returned" => \A i \in Tasks : Terminal(i)
    /\ (\E i \in Tasks : ~Terminal(i)) => ENABLED WorkerStep

\* C7 witness: the driver has returned from a run in which one invocation
\* raised and a later one downloaded files
FailureIsolationWitness ==
    /\ driver = "returned"
    /\ \E i, j \in Tasks :
          /\ i < j
          /\ task[i].pc = "failed"
          /\ task[j].pc = "done"
          /\ \E p \in hist[j].wrote : p \in DOMAIN files

\* the raw-content GETs and the failed ones of task i in the current run
GetsOf(i) == {g \in rawGets : g.run = run /\ g.task = i}
FailedOf(i) == {f \in failedDl : f.run = run /\ f.task = i}

\* C8 as stated: once a later run has completed, every download that failed
\* in the first run has left no file and has had its raw-content GET issued
\* again by the later run.
FailedDownloadRetried ==
    (run = 2 /\ driver = "returned") =>
        \A f \in failedDl :
            f.run = 1 =>
                /\ f.path \notin DOMAIN files
                /\ \E g \in rawGets : g.run = 2 /\ g.path = f.path

\* C8 amended: a failed download writes no file (a file at its path is the
\* work of another invocation), and a later run on the same destination root
\* issues no raw-content GET for it: the repository's directory exists and
\* the repository is skipped.
FailedDownloadNotRetried ==
    /\ \A f \in failedDl :
          f.run = run =>
              /\ f.path \notin hist[f.task].wrote
              /\ f.path \in DOMAIN files =>
                    \E j \in Tasks \ {f.task} : f.path \in hist[j].wrote
    /\ \A f \in failedDl :
          (f.run = 1 /\ run = 2) =>
              /\ Dirname(f.path) \in dirs
              /\ \A g \in rawGets : g.run = 2 => g.path # f.path

\* C8 witness: a second run has completed; a download of the first run
\* failed and its file is still missing
FailedDownloadWitness ==
    /\ run = 2
    /\ driver = "returned"
    /\ \E f \in failedDl : f.run = 1 /\ f.path \notin DOMAIN files

\* C9: a download_blob call that finds its local file existing returns to its
\* caller at once, issues no request and changes no file; it creates at most
\* the missing intermediate directories.
ExistingFileNoOp ==
    [][\A i \in Tasks :
          (/\ task[i].pc = "dbcheck"
           /\ LocalPath(task[i]) \in DOMAIN files
           /\ task'[i] # task[i])
          => /\ task'[i].pc = task[i].ret
             /\ files' = files
             /\ rawGets' = rawGets
             /\ hist'[i].calls = hist[i].calls
             /\ dirs' \subseteq dirs \cup Ancestors(Dirname(LocalPath(task[i])))
      ]_vars

\* C9 witness: download_blob was called for a path whose file another
\* invocation had written; it has returned without a GET of its own
ExistingFileNoOpWitness ==
    \E i \in Tasks :
        \E p \in hist[i].called :
            /\ task[i].pc \in {"treeloop", "items"}
            /\ Join(RepoDir(task[i]), p) \in DOMAIN files
            /\ Join(RepoDir(task[i]), p) \notin hist[i].wrote
            /\ Join(RepoDir(task[i]), p) \notin {g.path : g \in GetsOf(i)}

\* C10: when the raw-content GET of download_blob is answered, the call
\* returns to its caller without raising; on a non-200 status or a transport
\* failure nothing on the filesystem changes (a file that was missing is still
\* missing); on 200 the file holds the whole body.
DownloadOutcome ==
    [][\A i \in Tasks :
          (task[i].pc = "dbfetch" /\ task'[i] # task[i])
          => /\ task'[i].pc = task[i].ret
             /\ task'[i].exc = NONE
             /\ hist'[i].resp \in {"200", "404", "exc"}
             /\ hist'[i].resp = "200" =>
                   /\ LocalPath(task[i]) \in DOMAIN files'
                   /\ files'[LocalPath(task[i])] = Body(RawUrl(task[i]))
             /\ hist'[i].resp # "200" =>
                   /\ files' = files
                   /\ dirs' = dirs
                   /\ LocalPath(task[i]) \notin DOMAIN files =>
                         LocalPath(task[i]) \notin DOMAIN files'
      ]_vars

\* C10 witness: a download of an invocation failed and left no file, and a
\* later download of the same invocation has been written
DownloadOutcomeWitness ==
    \E i \in Tasks :
        /\ hist[i].resp = "200"
        /\ \E f \in FailedOf(i) : f.path \notin DOMAIN files
        /\ \E g \in GetsOf(i) : g.path \in hist[i].wrote /\ g.path \in DOMAIN files

\* the entries of a listing that are blobs whose path ends in ".c"
TargetBlobs(tree) ==
    LET IsTarget(e) == /\ e.type = "blob"
                       /\ Len(e.path) >= 2
                       /\ e.path[Len(e.path) - 1] = "."
                       /\ e.path[Len(e.path)] = "c"
    IN  SelectSeq(tree, IsTarget)

IsPrefix(s, t) == Len(s) <= Len(t) /\ SubSeq(t, 1, Len(s)) = s

\* the harvest of p/A by its tree listing and of p/B by the walker
HarvestAB ==
    {<<"r", SLASH, "A", SLASH, "a", ".", "c">>,
     <<"r", SLASH, "A", SLASH, "b", ".", "c">>,
     <<"r", SLASH, "B", SLASH, "d", SLASH, "c", ".", "c">>}

TreeThenWalk ==
    /\ run = 1
    /\ driver = "returned"
    /\ repos = <<LinkPA, LinkPB>>
    /\ hist[1].via = "tree"
    /\ hist[2].via = "walk"
    /\ ~hist[2].listFault
    /\ failedDl = {}

\* C11: on the tree path download_blob is called once for each blob entry
\* whose path ends in ".c", in the order of the listing, and for no other
\* entry; p/A by its tree and p/B by the walker leave exactly A/a.c, A/b.c
\* and B/d/c.c.
TreePathFiltering ==
    /\ \A i \in Tasks :
          hist[i].via = "tree" =>
              LET want == TargetBlobs(TreeListing(task[i].owner, task[i].name))
                  paths == [k \in 1..Len(want) |-> want[k].path]
              IN  /\ IsPrefix(hist[i].order, paths)
                  /\ hist[i].again = {}
                  /\ task[i].pc = "done" => hist[i].order = paths
    /\ TreeThenWalk => DOMAIN files = HarvestAB

\* C11 witness: the two-repository harvest has completed, a.h of p/A having
\* been passed over
TreePathFilteringWitness ==
    /\ TreeThenWalk
    /\ hist[1].order = << <<"a", ".", "c">>, <<"b", ".", "c">> >>
    /\ DOMAIN files = HarvestAB

\* a path without its leading and trailing separators
RECURSIVE Trimmed(_)
Trimmed(s) ==
    IF s = <<>> THEN s
    ELSE IF Head(s) = SLASH THEN Trimmed(Tail(s))
    ELSE IF s[Len(s)] = SLASH THEN Trimmed(SubSeq(s, 1, Len(s) - 1))
    ELSE s

\* the segments of s from position k on, cur being the one under way
RECURSIVE Segments(_, _, _)
Segments(s, k, cur) ==
    IF k > Len(s) THEN <<cur>>
    ELSE IF s[k] = SLASH THEN <<cur>> \o Segments(s, k + 1, <<>>)
    ELSE Segments(s, k + 1, Append(cur, s[k]))

\* C12: extract_repo_info returns the first and the second segment of the
\* reference's path, stripped of its leading and trailing separators, when
\* there are at least two, and fails when there are fewer; nothing of the
\* harvester's state changes.
ResolverContract ==
    (ret.done /\ call.fn = "extract_repo_info") =>
        LET segs == Segments(Trimmed(urlparse_path(call.link)), 1, <<>>)
        IN  /\ IF Len(segs) >= 2
               THEN ret.info = [ok |-> TRUE, owner |-> segs[1], name |-> segs[2]]
               ELSE ~ret.info.ok
            /\ run = 0 /\ dirs = {} /\ files = <<>> /\ rawGets = {}

\* C12 witness: a reference with scheme, host, three segments and a query
\* has been resolved to its first two segments
ResolverContractWitness ==
    /\ ret.done
    /\ call.link = <<"h", ":", SLASH, SLASH, "g", SLASH, "p", SLASH, "A",
                     SLASH, "p", "?", "x", SLASH, "y">>
    /\ ret.info = [ok |-> TRUE, owner |-> <<"p">>, name |-> <<"A">>]

\* invocation i is inside download_blob
InDownload(i) == task[i].pc \in {"dbcheck", "dbfetch"}

\* C13 as stated: two download tasks with the same local path are one and
\* the same task: same owner, repository, branch and path.
LocalPathInjective ==
    \A i, j \in Tasks :
        (InDownload(i) /\ InDownload(j)
            /\ LocalPath(task[i]) = LocalPath(task[j]))
        => RawUrl(task[i]) = RawUrl(task[j])

\* the answers to the tree request that make the Tree Enumerator return None
Unavailable == {"200-no-tree", "403"}

\* C14: the walker runs if and only if the tree request answered a status
\* other than 200, or 200 without a tree field; an empty listing is a
\* listing: no download and no walker; a transport failure ends the
\* invocation; and only the walker ever sleeps for a rate limit, a 403 to
\* the tree request leading straight to the walker's first listing.
StrategySelection ==
    \A i \in Tasks :
        LET h == hist[i]
            t == task[i]
        IN  /\ h.via = "walk" <=> h.treeResp \in Unavailable
            /\ h.via = "tree" <=> h.treeResp = "200"
            /\ "contents" \in h.calls => h.via = "walk"
            /\ (h.via = "walk" /\ "contents" \notin h.calls)
                  => t.pc = "walk" /\ t.stack = << <<>> >>
            /\ (h.treeResp = "200" /\ TreeListing(t.owner, t.name) = <<>>)
                  => h.called = {} /\ "raw" \notin h.calls
            /\ h.treeResp = "exc" => t.pc = "failed"
            /\ t.pc = "sleep" => h.via = "walk" /\ "contents" \in h.calls

\* C14 witness: the empty repository q/B was harvested by its (empty) tree
\* listing, and another repository by the walker after a 403 to its tree
\* request
StrategySelectionWitness ==
    \E i, j \in Tasks :
        /\ task[i].pc = "done"
        /\ task[i].owner = OwnerQ /\ task[i].name = NameB
        /\ hist[i].treeResp = "200"
        /\ hist[i].via = "tree"
        /\ hist[i].calls = {"branch", "tree"}
        /\ task[j].pc = "done"
        /\ hist[j].treeResp = "403"
        /\ hist[j].via = "walk"
        /\ hist[j].called # {}

\* invocation i issues a listing request in this step
Lists(i) ==
    /\ task[i].pc = "walk"
    /\ task[i].stack # <<>>
    /\ task'[i] # task[i]

\* C15: a listing that fails (a transport failure, or a status other than
\* 200 that is no 403 with an integer reset header) takes its path off the
\* work-list and leaves the rest of the work-list, the files and the
\* directories as they were; the path is never requested again in the walk;
\* and the walk ends only when the work-list is empty, so every path that
\* was on it has been popped and listed.
WalkerAbandon ==
    [][\A i \in Tasks :
          /\ Lists(i) => Top(task[i].stack) \notin hist[i].errored
          /\ (Lists(i) /\ hist'[i].errored # hist[i].errored)
                => /\ hist'[i].errored =
                          hist[i].errored \cup {Top(task[i].stack)}
                   /\ task'[i].pc = "walk"
                   /\ task'[i].stack = Pop(task[i].stack)
                   /\ files' = files
                   /\ dirs' = dirs
          /\ (task[i].pc = "walk" /\ task'[i].pc = "done")
                => task[i].stack = <<>>
      ]_vars

\* C15 witness: in the walk of p/B the listing of e failed while d was on
\* the work-list; d was listed afterwards and d/c.c downloaded
WalkerAbandonWitness ==
    \E i \in Tasks :
        /\ task[i].pc = "done"
        /\ task[i].owner = OwnerP /\ task[i].name = NameB
        /\ hist[i].errored = {<<"e">>}
        /\ hist[i].listed = {<<>>, <<"d">>}
        /\ LocalPath([task[i] EXCEPT !.path = <<"d", SLASH, "c", ".", "c">>])
              \in hist[i].wrote

\* invocation 1 is in its walk and has not returned from it
Walking == 1 \in Tasks /\ hist[1].via = "walk" /\ task[1].pc # "done"

\* C16: a walk, rate-limited and failed finitely often, comes to its end;
\* it never raises, and it returns exactly at the head of its loop with the
\* work-list empty.
WalkerTerminates ==
    /\ Walking ~> (1 \in Tasks /\ task[1].pc = "done")
    /\ [][\A i \in Tasks :
             (hist[i].via = "walk" /\ task'[i] # task[i])
             => /\ task'[i].pc # "failed"
                /\ task'[i].pc = "done"
                      <=> (task[i].pc = "walk" /\ task[i].stack = <<>>)
         ]_vars

\* C16 witness: a walk that slept for a rate limit (the clock has advanced)
\* and then processed the listings of all three directories of p/B has
\* returned
WalkerTerminatesWitness ==
    /\ 1 \in Tasks
    /\ task[1].pc = "done"
    /\ hist[1].via = "walk"
    /\ now > 2
    /\ Cardinality(hist[1].listed) = 3

Parsed == ret.done /\ call.fn = "parse_rate_limit_headers"

\* C17 as stated: the integer pair when both headers are present and
\* well-formed, (None, None) when one is absent or malformed.
HeaderParsingAbsentIsNone ==
    Parsed =>
        LET h == call.headers
        IN  IF h.remaining.k = "int" /\ h.reset.k = "int"
            THEN ret.pair = << PyInt(h.remaining.v), PyInt(h.reset.v) >>
            ELSE ret.pair = << PyNone, PyNone >>

\* C17 amended: (None, None) when a header that is present is malformed;
\* otherwise the integer pair, an absent header counting as 0.
HeaderParsing ==
    Parsed =>
        LET h == call.headers
            Value(x) == IF x.k = "int" THEN x.v ELSE 0
        IN  IF h.remaining.k = "bad" \/ h.reset.k = "bad"
            THEN ret.pair = << PyNone, PyNone >>
            ELSE ret.pair = << PyInt(Value(h.remaining)), PyInt(Value(h.reset)) >>

\* C17 witness: headers without X-RateLimit-Remaining were parsed to (0, 3)
HeaderParsingWitness ==
    /\ Parsed
    /\ call.headers = [remaining |-> Absent, reset |-> IntHdr(3)]
    /\ ret.pair = << PyInt(0), PyInt(3) >>

\* C18 as stated: with a maximum count N configured (any N >= 0, 0
\* included) the driver submits the first N references in input order, all
\* of them when there are fewer; with none configured it submits every
\* reference.
MaxCountTruncation ==
    driver # "idle" =>
        /\ \A i \in Tasks : i <= Len(repos) /\ task[i].link = repos[i]
        /\ (env.k = "int" /\ env.v >= 0)
              => Len(task) = (IF env.v <= Len(repos) THEN env.v ELSE Len(repos))
        /\ env.k # "int" => Len(task) = Len(repos)

\* the branch the claim expects invocation i to use, once the metadata
\* request has been answered
ExpectedBranch(i) ==
    IF hist[i].branchResp = "200"
    THEN (IF task[i].owner = OwnerQ THEN "dev" ELSE "main")
    ELSE "master"

\* C19: after a 200 to the metadata request the declared default branch is
\* used, after any other status the literal "master", and the invocation
\* goes on to the tree request; that one branch is in the tree request and
\* in every raw-content GET of the invocation, by the tree and by the walker.
BranchFallback ==
    \A i \in Tasks :
        hist[i].branchResp \in {"200", "404"} =>
            /\ (hist[i].treeResp = NONE)
                  => task[i].pc = "tree" /\ task[i].branch = ExpectedBranch(i)
            /\ (hist[i].treeResp # NONE)
                  => hist[i].treeBranch = ExpectedBranch(i)
            /\ task[i].pc \notin {"done", "failed"}
                  => task[i].branch = ExpectedBranch(i)
            /\ \A g \in GetsOf(i) : g.branch = ExpectedBranch(i)
            /\ \A p \in hist[i].wrote \cap DOMAIN files :
                  \/ files[p][3] = ExpectedBranch(i)
                  \/ \E j \in Tasks \ {i} : p \in hist[j].wrote

\* C19 witness: one invocation fell back to "master" and downloaded through
\* the walker, another used the declared branch "dev" through the tree
BranchFallbackWitness ==
    \E i, j \in Tasks :
        /\ hist[i].branchResp = "404"
        /\ hist[i].via = "walk"
        /\ \E g \in GetsOf(i) : g.branch = "master"
        /\ hist[j].branchResp = "200"
        /\ hist[j].via = "tree"
        /\ \E g \in GetsOf(j) : g.branch = "dev"

\* the paths the listing of directory d of a repository gives as directories
DirsIn(owner, name, d) ==
    LET items == Contents(owner, name, d)
    IN  {items[n].path : n \in {k \in 1..Len(items) : items[k].type = "dir"}}

\* C20: in a walk every path on the work-list is the root or a directory
\* entry of a listing that was answered 200 and processed; no path is on the
\* work-list twice; no directory has its 200 listing processed twice; and
\* download_blob is called at most once for a file.
WorkListInvariant ==
    \A i \in Tasks :
        hist[i].via = "walk" =>
            LET t == task[i]
                st == t.stack
            IN  /\ \A k \in 1..Len(st) :
                      \/ st[k] = <<>>
                      \/ \E d \in hist[i].listed :
                            st[k] \in DirsIn(t.owner, t.name, d)
                /\ \A k, l \in 1..Len(st) : k # l => st[k] # st[l]
                /\ t.pc = "sleep" => \A k \in 1..Len(st) : st[k] # t.path
                /\ hist[i].relisted = {}
                /\ hist[i].again = {}

\* C20 witness: the only invocation, having slept for a rate limit, has both
\* subdirectories of p/B on its work-list
WorkListInvariantWitness ==
    /\ Len(task) = 1
    /\ now > 2
    /\ hist[1].via = "walk"
    /\ task[1].pc = "walk"
    /\ task[1].stack = << <<"d">>, <<"e">> >>
=============================================================================
